---- MODULE Spec2Model ----
(***************************************************************************)
(* Model of the botrista kettle / pouring nodes.                           *)
(*                                                                         *)
(*   SpecSpiral  : get_spiral_waypoints (pouring.py), a pure function      *)
(*   SpecPouring : Pouring.pour_callback (pouring.py), the pour_action     *)
(*                 server                                                  *)
(*   Spec        : Kettle (kettle.py), the pick_kettle / place_kettle /    *)
(*                 pour_kettle action servers running concurrently in      *)
(*                 reentrant callback groups                               *)
(*                                                                         *)
(* Floating point numbers are modelled in fixed point: lengths in          *)
(* micrometres, angles in quarter degrees, sine and cosine scaled by       *)
(* TrigScale.                                                              *)
(***************************************************************************)
EXTENDS Integers, Sequences, FiniteSets, TLC

VARIABLES
    sp_in,      \* arguments of the current get_spiral_waypoints call
    sp_out,     \* what that call produced
    p_pc,       \* where the pour_callback coroutine of the Pouring node is
    p_req,      \* goal_handle.request of that invocation
    p_feedback, \* the feedback messages published so far, in order
    p_status,   \* result.status as returned: "unset", "true" or "false"
    p_goal,     \* state of the goal handle: "none", "executing", "succeeded"
    p_calls,    \* calls made to the tf buffer and to MoveItApi, in order
    p_waypoints, \* the list handed to create_cartesian_path
    p_plan,     \* what create_cartesian_path answered: "none", "planned", "failed"
    p_exec,     \* the trajectory execution: "none", "dispatched", "complete"
    p_lookup,   \* the frame lookup of that invocation: "none", "found", "failed"
    p_events,   \* what that invocation did, statement by statement, in order
    kettle_actual_place, \* Kettle.kettle_actual_place: 0 is TransformStamped()
    inv,        \* the goals the Kettle node is serving, one coroutine each
    pickSucceeded, \* some pick_kettle goal of this session has succeeded
    recordUses, \* place_kettle invocations that have read kettle_actual_place
                \* since it was last written (SpecSession only)
    cancelRequested \* goals a client has asked to cancel (SpecSession only)

spiralVars == <<sp_in, sp_out>>
pouringVars == <<p_pc, p_req, p_feedback, p_status, p_goal, p_calls,
                 p_waypoints, p_plan, p_exec, p_lookup, p_events>>
sessionVars == <<recordUses, cancelRequested>>
kettleVars == <<kettle_actual_place, inv, pickSucceeded, sessionVars>>
vars == <<sp_in, sp_out, p_pc, p_req, p_feedback, p_status, p_goal, p_calls,
          p_waypoints, p_plan, p_exec, p_lookup, p_events,
          kettle_actual_place, inv, pickSucceeded,
          recordUses, cancelRequested>>

----------------------------------------------------------------------------
(* Bounds of the model *)

\* numPoints ranges over -1 .. MaxPoints
MaxPoints == 4
\* loops ranges over -1/LoopDen .. MaxLoopsN/LoopDen
MaxLoopsN == 4
\* maxRadius ranges over -RadiusStep .. MaxRadiusSteps*RadiusStep
MaxRadiusSteps == 2
\* goals the Kettle node serves at the same time
MaxConcurrent == 2
\* distinct poses GraspProcess may report as actual_grasp_pose
MaxGraspPoses == 2
\* recordUses counts up to MaxRecordUses and stays there
MaxRecordUses == 2

----------------------------------------------------------------------------
(* Fixed point arithmetic *)

\* 2*math.pi, in quarter degrees
TwoPi == 1440
\* math.pi, in quarter degrees
Pi == 720
\* sine and cosine are integers scaled by TrigScale
TrigScale == 1000
\* the spiral coefficient b is kept with BScale more precision
BScale == 1000
\* loops is a float: it is loopsN / LoopDen
LoopDen == 2
\* maxRadius is a float: a multiple of RadiusStep micrometres (0.01 m)
RadiusStep == 10000

\* sine of x quarter degrees, 0 <= x <= Pi (Bhaskara's rational approximation,
\* exact at 0, 30, 90, 150 and 180 degrees), scaled by TrigScale
SinHalfTurn(x) ==
    LET p == x * (Pi - x)
    IN  (4 * TrigScale * p) \div (((5 * Pi * Pi) \div 4) - p)

\* math.sin(th), th in quarter degrees, scaled by TrigScale
Sin(th) ==
    LET x == th % TwoPi
    IN  IF x <= Pi THEN SinHalfTurn(x) ELSE -SinHalfTurn(x - Pi)

\* math.cos(th), th in quarter degrees, scaled by TrigScale
Cos(th) == Sin(th + (Pi \div 2))

\* r*trig with trig scaled by TrigScale, rounded towards zero
MulTrig(r, t) ==
    IF r * t >= 0 THEN (r * t) \div TrigScale ELSE -((-(r * t)) \div TrigScale)

----------------------------------------------------------------------------
(* get_spiral_waypoints, pouring.py *)

Points == { [x |-> 0, y |-> 0, z |-> 0],
            [x |-> 300000, y |-> -100000, z |-> 170000] }
Orientations == {"identity", "tool_down"}

Pose(position, orientation) ==
    [position |-> position, orientation |-> orientation]

SpiralPoseSwapped(startPoint, startOre, count, thStep, b) ==
    LET th  == count * thStep
        r   == (th * b) \div BScale
        x_n == MulTrig(r, Sin(th)) + startPoint.x
        y_n == MulTrig(r, Cos(th)) + startPoint.y
        z_n == startPoint.z
    IN  Pose([x |-> x_n, y |-> y_n, z |-> z_n], startOre)

\* the new point of one iteration of the loop (pouring.py:148-157)
SpiralPose(startPoint, startOre, count, thStep, b) ==
    LET th  == count * thStep
        r   == (th * b) \div BScale
        x_n == MulTrig(r, Cos(th)) + startPoint.x
        y_n == MulTrig(r, Sin(th)) + startPoint.y
        z_n == startPoint.z
    IN  Pose([x |-> x_n, y |-> y_n, z |-> z_n], startOre)

LoopCondInclusive(count, numPoints) == count <= numPoints

\* while count < numPoints
LoopCond(count, numPoints) == count < numPoints

RECURSIVE SpiralLoop(_, _, _, _, _, _, _)
SpiralLoop(count, poseList, startPoint, startOre, numPoints, thStep, b) ==
    IF LoopCond(count, numPoints)
    THEN SpiralLoop(count + 1,
                    Append(poseList,
                           SpiralPose(startPoint, startOre, count, thStep, b)),
                    startPoint, startOre, numPoints, thStep, b)
    ELSE poseList

\* "poseList.reverse" names the bound method and does not call it: the list
\* is left as it is
FlipStart(poseList, flipStart) ==
    IF flipStart THEN poseList ELSE poseList

\* The outcome of a call: the returned list, or the exception raised by a
\* division by zero (thTotal/numPoints, maxRadius/2/math.pi/loops).
get_spiral_waypoints(startPoint, startOre, numPoints, maxRadius, loopsN, flipStart) ==
    LET thTotal == (loopsN * TwoPi) \div LoopDen
    IN  IF numPoints = 0 \/ loopsN = 0
        THEN [kind |-> "ZeroDivisionError", poseList |-> <<>>]
        ELSE LET thStep == thTotal \div numPoints
                 b      == (maxRadius * BScale) \div thTotal
             IN  [kind |-> "returned",
                  poseList |-> FlipStart(
                      SpiralLoop(0, <<>>, startPoint, startOre,
                                 numPoints, thStep, b),
                      flipStart)]

SpiralInputs ==
    [startPoint : Points, startOre : Orientations,
     numPoints : -1..MaxPoints,
     maxRadius : { k * RadiusStep : k \in -1..MaxRadiusSteps },
     loopsN : -1..MaxLoopsN,
     flipStart : BOOLEAN]

NoOutcome == [kind |-> "none", poseList |-> <<>>]


\* frames a PourAction goal may name
Frames == {"panda_hand_tcp", "pot_top"}

\* PourAction.Goal: num_points is an integer, spiral_radius and num_loops are
\* floats, any value of which a client may send
PourRequests ==
    [pour_frame : Frames,
     num_points : 0..MaxPoints,
     spiral_radius : { k * RadiusStep : k \in 0..MaxRadiusSteps },
     num_loops : 1..MaxLoopsN,
     start_outside : BOOLEAN]

NoRequest == CHOOSE r \in PourRequests : TRUE

PouringIdle ==
    /\ p_pc = "idle"
    /\ p_req = NoRequest
    /\ p_feedback = <<>>
    /\ p_status = "unset"
    /\ p_goal = "none"
    /\ p_calls = <<>>
    /\ p_waypoints = <<>>
    /\ p_plan = "none"
    /\ p_exec = "none"
    /\ p_lookup = "none"
    /\ p_events = <<>>

FailedTransformStageUnnamed(frame) == <<"Failed to get transform">>

\* feedback.stage of the frame lookup failure (pouring.py:78)
FailedTransformStage(frame) == <<"Failed to get transform to", frame>>

\* the action server accepts a goal and schedules pour_callback; the previous
\* invocation, if any, has returned
AcceptPourGoal ==
    /\ p_pc \in {"idle", "returned", "raised"}
    /\ \E req \in PourRequests : p_req' = req
    /\ p_pc' = "start"
    /\ p_feedback' = <<>>
    /\ p_status' = "unset"
    /\ p_goal' = "executing"
    /\ p_calls' = <<>>
    /\ p_waypoints' = <<>>
    /\ p_plan' = "none"
    /\ p_exec' = "none"
    /\ p_lookup' = "none"
    /\ p_events' = <<>>
    /\ UNCHANGED <<spiralVars, kettleVars>>

\* pouring.py:64-83, the lookup raised TransformException
PourLookupFailed ==
    /\ p_pc = "start"
    /\ p_calls' = Append(p_calls, "lookup_transform")
    /\ p_feedback' = Append(p_feedback, FailedTransformStage(p_req.pour_frame))
    /\ p_status' = "false"
    /\ p_pc' = "returned"
    /\ p_lookup' = "failed"
    /\ p_events' = p_events \o <<"lookup_transform", "publish_feedback", "return">>
    /\ UNCHANGED <<p_req, p_goal, p_waypoints, p_plan, p_exec>>
    /\ UNCHANGED <<spiralVars, kettleVars>>

\* pouring.py:64-83, the lookup answered: the coroutine suspends on
\* get_end_effector_pose
PourLookupOk ==
    /\ p_pc = "start"
    /\ p_calls' = p_calls \o <<"lookup_transform", "get_end_effector_pose">>
    /\ p_pc' = "await_end_effector_pose"
    /\ p_lookup' = "found"
    /\ p_events' = p_events \o <<"lookup_transform", "await get_end_effector_pose">>
    /\ UNCHANGED <<p_req, p_feedback, p_status, p_goal, p_waypoints, p_plan, p_exec>>
    /\ UNCHANGED <<spiralVars, kettleVars>>

\* pouring.py:83-99, the end effector pose arrived: compute the waypoints and
\* suspend on create_cartesian_path; a division by zero in
\* get_spiral_waypoints leaves the callback by an exception
PourComputeAndPlan ==
    /\ p_pc = "await_end_effector_pose"
    /\ \E startPoint \in Points, startOre \in Orientations :
        LET out == get_spiral_waypoints(startPoint, startOre,
                                        p_req.num_points, p_req.spiral_radius,
                                        p_req.num_loops, p_req.start_outside)
        IN  IF out.kind = "returned"
            THEN /\ p_feedback' = p_feedback \o
                        << <<"Calculating path">>, <<"Planning path">> >>
                 /\ p_waypoints' = out.poseList
                 /\ p_calls' = Append(p_calls, "create_cartesian_path")
                 /\ p_pc' = "await_cartesian_path"
                 /\ p_events' = p_events \o
                        <<"got end_effector_pose",
                          "publish Calculating path", "get_spiral_waypoints",
                          "publish Planning path", "await create_cartesian_path">>
            ELSE /\ p_feedback' = Append(p_feedback, <<"Calculating path">>)
                 /\ p_pc' = "raised"
                 /\ p_events' = p_events \o
                        <<"got end_effector_pose",
                          "publish Calculating path", "get_spiral_waypoints">>
                 /\ UNCHANGED <<p_waypoints, p_calls>>
    /\ UNCHANGED <<p_req, p_status, p_goal, p_plan, p_exec, p_lookup>>
    /\ UNCHANGED <<spiralVars, kettleVars>>

AfterPlanningLateFeedback(planned) ==
    /\ p_feedback' = Append(p_feedback, <<"Executing path">>)
    /\ p_events' = p_events \o
           <<"got cartesian_path", "execute_trajectory",
             "publish Executing path", "succeed", "return">>
    /\ p_calls' = Append(p_calls, "execute_trajectory")
    /\ p_exec' = "dispatched"
    /\ p_goal' = "succeeded"
    /\ p_status' = "true"
    /\ p_pc' = "returned"

\* what the callback does with the planner's answer (pouring.py:99-108): the
\* answer is not inspected
AfterPlanning(planned) ==
    /\ p_feedback' = Append(p_feedback, <<"Executing path">>)
    /\ p_events' = p_events \o
           <<"got cartesian_path", "publish Executing path",
             "execute_trajectory", "succeed", "return">>
    /\ p_calls' = Append(p_calls, "execute_trajectory")
    /\ p_exec' = "dispatched"
    /\ p_goal' = "succeeded"
    /\ p_status' = "true"
    /\ p_pc' = "returned"

\* pouring.py:99-108, create_cartesian_path answered, with a plan or with a
\* failure: execute_trajectory is called and not awaited, the goal succeeds
PourExecuteAndReturn ==
    /\ p_pc = "await_cartesian_path"
    /\ \E planned \in BOOLEAN :
        /\ p_plan' = IF planned THEN "planned" ELSE "failed"
        /\ AfterPlanning(planned)
    /\ UNCHANGED <<p_req, p_waypoints, p_lookup>>
    /\ UNCHANGED <<spiralVars, kettleVars>>

\* the robot finishes the trajectory that execute_trajectory dispatched
ExecutionCompletes ==
    /\ p_exec = "dispatched"
    /\ p_exec' = "complete"
    /\ UNCHANGED <<p_pc, p_req, p_feedback, p_status, p_goal, p_calls,
                   p_waypoints, p_plan, p_lookup, p_events>>
    /\ UNCHANGED <<spiralVars, kettleVars>>

(* Kettle, kettle.py *)

Slots == 1..MaxConcurrent
GraspPoses == 1..MaxGraspPoses

\* A call a handler makes and suspends on (await).
Call(op, pose, start_outside, tf, time) ==
    [op |-> op, pose |-> pose, start_outside |-> start_outside,
     tf |-> tf, time |-> time, goal |-> <<>>]

\* PourAction.Goal(num_points=100, ...)
PourNumPoints == 100
\* PourAction.Goal(spiral_radius=0.02, ...), in micrometres
PourSpiralRadius == 20000
\* PourAction.Goal(num_loops=2.0, ...), in units of 1/LoopDen
PourNumLoopsN == 4

\* moveit_api.plan_joint_async(..., execute=True), the home configuration
PlanJointHome == Call("plan_joint_async", "home", FALSE, -1, 0)
\* moveit_api.plan_async(point=pose.position, ..., execute=True)
PlanAsync(pose) == Call("plan_async", pose, FALSE, -1, 0)
\* pour_kettle.send_goal_async(PourAction.Goal(100, 0.02, 2.0, start_outside,
\* "panda_hand_tcp"))
SendPourGoal(start_outside) ==
    [Call("pour_action.send_goal_async", "", start_outside, -1, 0)
        EXCEPT !.goal = <<PourNumPoints, PourSpiralRadius, PourNumLoopsN,
                          "panda_hand_tcp">>]
\* grasp_process.send_goal_async(goal_msg)
SendGraspGoal == Call("grasp_process.send_goal_async", "", FALSE, -1, 0)
\* goal.get_result_async()
GetResult == Call("get_result_async", "", FALSE, -1, 0)
\* delay_client.call_async(DelayTime.Request(time=1.0))
DelayCall(time) == Call("delay.call_async", "", FALSE, -1, time)
\* grasp_planner.execute_grasp_plan(grasp_plan), its poses composed with tf
\* kettle.py:149-162, the z offsets of the three fixed poses, in micrometres
PlaceApproachZ == -100000
PlaceGraspZ == -20000
PlaceRetreatZ == -100000

\* tf2_geometry_msgs.do_transform_pose: a new pose, fixed by the offset pose
\* and by the transform it is given
do_transform_pose(pose_z, transform) == [z |-> pose_z, tf |-> transform]

\* kettle.py:171-181
GraspPlan(approach_pose, grasp_pose, retreat_pose) ==
    <<approach_pose, grasp_pose, retreat_pose>>

ExecuteGraspPlan(grasp_plan) ==
    [Call("execute_grasp_plan", "", FALSE, grasp_plan[1].tf, 0)
        EXCEPT !.goal = grasp_plan]

\* the calls that ask the robot to move
MotionOps == {"plan_joint_async", "plan_async", "pour_action.send_goal_async",
              "grasp_process.send_goal_async", "execute_grasp_plan"}

\* DelayTime.Request(time=1.0)
SettleTime == 1

PourCycleSpiralFirst(start_outside) ==
    << PlanAsync("approach_pose"), SendPourGoal(start_outside), GetResult,
       PlanAsync("pour_pose"), PlanAsync("approach_pose") >>

\* one pour of pour_kettle_cb: approach, pour pose, spiral, back to approach
PourCycle(start_outside) ==
    << PlanAsync("approach_pose"), PlanAsync("pour_pose"),
       SendPourGoal(start_outside), GetResult, PlanAsync("approach_pose") >>

PourProgramUniform ==
    PourCycle(FALSE) \o <<DelayCall(SettleTime)>> \o
    PourCycle(FALSE) \o <<DelayCall(SettleTime)>> \o
    PourCycle(FALSE) \o <<DelayCall(SettleTime)>> \o
    PourCycle(FALSE)

\* the awaited calls of pour_kettle_cb after the lookup, in program order
PourProgram ==
    PourCycle(TRUE)  \o <<DelayCall(SettleTime)>> \o
    PourCycle(FALSE) \o <<DelayCall(SettleTime)>> \o
    PourCycle(FALSE) \o <<DelayCall(SettleTime)>> \o
    PourCycle(FALSE)

\* what a handler returned: still running, None, or EmptyAction.Result()
Running == <<"running">>
ReturnedNone == <<"None">>
ReturnedResult == <<"EmptyAction.Result()">>

FreeSlot ==
    [kind |-> "none", pc |-> "free", step |-> 0, goal |-> "none",
     ret |-> Running, calls |-> <<>>, lookup |-> "none", subfail |-> FALSE,
     tf |-> -1, log |-> <<>>]

KettleIdle ==
    /\ kettle_actual_place = 0
    /\ inv = [i \in Slots |-> FreeSlot]
    /\ pickSucceeded = FALSE
    /\ recordUses = 0
    /\ cancelRequested = {}

Unrelated == <<spiralVars, pouringVars>>

\* an action server accepts a goal and schedules its execute callback
AcceptGoal(i, kind) ==
    /\ inv[i].pc = "free"
    /\ inv' = [inv EXCEPT ![i] = [FreeSlot EXCEPT !.kind = kind,
                                                 !.pc = "accepted",
                                                 !.goal = "executing"]]
    /\ UNCHANGED <<kettle_actual_place, pickSucceeded, Unrelated>>

\* the handler suspends on the call c
Await(r, c) ==
    [r EXCEPT !.pc = "awaiting", !.step = r.step + 1, !.calls = Append(r.calls, c)]

\* goal_handle.succeed(); return EmptyAction.Result()
Succeed(r) ==
    [r EXCEPT !.pc = "returned", !.goal = "succeeded", !.ret = ReturnedResult,
              !.log = Append(r.log, <<"goal_handle.succeed">>)]

\* self.kettle_actual_place = res.result.actual_grasp_pose
Stored(r) == [r EXCEPT !.log = Append(r.log, <<"store actual_grasp_pose">>)]

\* self.get_logger().error("No transform found"); return
ReturnNoTransform(r) ==
    [r EXCEPT !.pc = "returned", !.ret = ReturnedNone, !.lookup = "failed",
              !.log = Append(r.log, <<"No transform found">>)]

\* what the awaited call c may answer: a motion or the result of a sub-action
\* succeeds or fails; the acceptance of a goal and the delay service just
\* answer
Answers(c) ==
    IF c.op \in {"plan_joint_async", "plan_async", "get_result_async",
                 "execute_grasp_plan"}
    THEN BOOLEAN ELSE {TRUE}

\* the awaited call answered, with success or with a failure
Answered(r, ok) == [r EXCEPT !.subfail = r.subfail \/ ~ok]

(* pick_kettle_cb *)

\* kettle.py:99-107
PickStart(i) ==
    /\ inv[i].kind = "pick" /\ inv[i].pc = "accepted"
    /\ inv' = [inv EXCEPT ![i] = Await(inv[i], PlanJointHome)]
    /\ UNCHANGED <<kettle_actual_place, pickSucceeded, Unrelated>>

\* kettle.py:109-141, the tag transform is found
PickLookupOk(i) ==
    /\ inv[i].kind = "pick" /\ inv[i].pc = "awaiting" /\ inv[i].step = 1
    /\ \E ok \in Answers(inv[i].calls[inv[i].step]) :
        inv' = [inv EXCEPT ![i] =
                  Await([Answered(inv[i], ok) EXCEPT !.lookup = "found"],
                        SendGraspGoal)]
    /\ UNCHANGED <<kettle_actual_place, pickSucceeded, Unrelated>>

PickLookupFailedGoesOn(i) ==
    /\ inv[i].kind = "pick" /\ inv[i].pc = "awaiting" /\ inv[i].step = 1
    /\ \E ok \in Answers(inv[i].calls[inv[i].step]) :
        inv' = [inv EXCEPT ![i] =
                  Await([Answered(inv[i], ok) EXCEPT
                             !.lookup = "failed",
                             !.log = Append(@, <<"No transform found">>)],
                        SendGraspGoal)]
    /\ UNCHANGED <<kettle_actual_place, pickSucceeded, Unrelated>>

\* kettle.py:109-117, the lookup raised
PickLookupFailed(i) ==
    /\ inv[i].kind = "pick" /\ inv[i].pc = "awaiting" /\ inv[i].step = 1
    /\ \E ok \in Answers(inv[i].calls[inv[i].step]) :
        inv' = [inv EXCEPT ![i] = ReturnNoTransform(Answered(inv[i], ok))]
    /\ UNCHANGED <<kettle_actual_place, pickSucceeded, Unrelated>>

PickGoalSentWritesRecord(i) ==
    /\ inv[i].kind = "pick" /\ inv[i].pc = "awaiting" /\ inv[i].step = 2
    /\ inv' = [inv EXCEPT ![i] = Await(Stored(inv[i]), GetResult)]
    /\ \E actual_grasp_pose \in GraspPoses :
        kettle_actual_place' = actual_grasp_pose
    /\ UNCHANGED <<pickSucceeded, Unrelated>>

\* kettle.py:141-142
PickGoalSent(i) ==
    /\ inv[i].kind = "pick" /\ inv[i].pc = "awaiting" /\ inv[i].step = 2
    /\ inv' = [inv EXCEPT ![i] = Await(inv[i], GetResult)]
    /\ UNCHANGED <<kettle_actual_place, pickSucceeded, Unrelated>>

\* kettle.py:142-145, the grasp result arrived, of a grasp that held or failed
PickGraspResult(i) ==
    /\ inv[i].kind = "pick" /\ inv[i].pc = "awaiting" /\ inv[i].step = 3
    /\ \E ok \in Answers(inv[i].calls[inv[i].step]),
          actual_grasp_pose \in GraspPoses :
        /\ kettle_actual_place' = actual_grasp_pose
        /\ inv' = [inv EXCEPT ![i] = Succeed(Stored(Answered(inv[i], ok)))]
    /\ pickSucceeded' = TRUE
    /\ UNCHANGED Unrelated

(* place_kettle_cb *)

\* kettle.py:147-183: the three poses are composed with kettle_actual_place
PlaceStart(i) ==
    /\ inv[i].kind = "place" /\ inv[i].pc = "accepted"
    /\ LET approach_pose == do_transform_pose(PlaceApproachZ, kettle_actual_place)
           grasp_pose == do_transform_pose(PlaceGraspZ, kettle_actual_place)
           \* composed at kettle.py:168-169 and never used:
           \* the plan is built with retreat_pose=approach_pose
           retreat_pose == do_transform_pose(PlaceRetreatZ, kettle_actual_place)
       IN  inv' = [inv EXCEPT ![i] =
                     Await([inv[i] EXCEPT !.tf = kettle_actual_place],
                           ExecuteGraspPlan(GraspPlan(approach_pose, grasp_pose,
                                                      approach_pose)))]
    /\ UNCHANGED <<kettle_actual_place, pickSucceeded, Unrelated>>

PlaceDoneRecomposes(i) ==
    /\ inv[i].kind = "place" /\ inv[i].pc = "awaiting" /\ inv[i].step = 1
    /\ \E ok \in Answers(inv[i].calls[inv[i].step]) :
        inv' = [inv EXCEPT ![i] =
                  Succeed([Answered(inv[i], ok) EXCEPT !.calls[1] =
                      ExecuteGraspPlan(GraspPlan(
                          do_transform_pose(PlaceApproachZ, kettle_actual_place),
                          do_transform_pose(PlaceGraspZ, kettle_actual_place),
                          do_transform_pose(PlaceApproachZ, kettle_actual_place)))])]
    /\ UNCHANGED <<kettle_actual_place, pickSucceeded, Unrelated>>

\* kettle.py:183-185
PlaceDone(i) ==
    /\ inv[i].kind = "place" /\ inv[i].pc = "awaiting" /\ inv[i].step = 1
    /\ \E ok \in Answers(inv[i].calls[inv[i].step]) :
        inv' = [inv EXCEPT ![i] = Succeed(Answered(inv[i], ok))]
    /\ UNCHANGED <<kettle_actual_place, pickSucceeded, Unrelated>>

(* pour_kettle_cb *)

\* kettle.py:197-241, the pot_top transform is found
PourStartOk(i) ==
    /\ inv[i].kind = "pour" /\ inv[i].pc = "accepted"
    /\ inv' = [inv EXCEPT ![i] =
                 Await([inv[i] EXCEPT !.lookup = "found"], PourProgram[1])]
    /\ UNCHANGED <<kettle_actual_place, pickSucceeded, Unrelated>>

\* kettle.py:197-202, the lookup raised
PourStartFailed(i) ==
    /\ inv[i].kind = "pour" /\ inv[i].pc = "accepted"
    /\ inv' = [inv EXCEPT ![i] = ReturnNoTransform(inv[i])]
    /\ UNCHANGED <<kettle_actual_place, pickSucceeded, Unrelated>>

\* kettle.py:237-353: an awaited call answers, its answer is not inspected,
\* and the handler suspends on the next call
PourStep(i) ==
    /\ inv[i].kind = "pour" /\ inv[i].pc = "awaiting"
    /\ inv[i].step < Len(PourProgram)
    /\ \E ok \in Answers(inv[i].calls[inv[i].step]) :
        inv' = [inv EXCEPT ![i] =
                  Await(Answered(inv[i], ok), PourProgram[inv[i].step + 1])]
    /\ UNCHANGED <<kettle_actual_place, pickSucceeded, Unrelated>>

\* kettle.py:349-356
PourDone(i) ==
    /\ inv[i].kind = "pour" /\ inv[i].pc = "awaiting"
    /\ inv[i].step = Len(PourProgram)
    /\ \E ok \in Answers(inv[i].calls[inv[i].step]) :
        inv' = [inv EXCEPT ![i] = Succeed(Answered(inv[i], ok))]
    /\ UNCHANGED <<kettle_actual_place, pickSucceeded, Unrelated>>

\* the action server has delivered the outcome of a returned handler
Retire(i) ==
    /\ inv[i].pc = "returned"
    /\ inv' = [inv EXCEPT ![i] = FreeSlot]
    /\ UNCHANGED <<kettle_actual_place, pickSucceeded, Unrelated>>

----------------------------------------------------------------------------
(* Initial states and specifications *)

SpiralIdle ==
    /\ sp_in = CHOOSE i \in SpiralInputs : TRUE
    /\ sp_out = NoOutcome

SpiralInit ==
    /\ sp_in \in SpiralInputs
    /\ sp_out = NoOutcome
    /\ PouringIdle
    /\ KettleIdle

\* a caller evaluates get_spiral_waypoints on its arguments
CallSpiral ==
    /\ sp_out.kind = "none"
    /\ sp_out' = get_spiral_waypoints(sp_in.startPoint, sp_in.startOre,
                                      sp_in.numPoints, sp_in.maxRadius,
                                      sp_in.loopsN, sp_in.flipStart)
    /\ UNCHANGED sp_in
    /\ UNCHANGED <<pouringVars, kettleVars>>

SpiralNext == CallSpiral

SpecSpiral == SpiralInit /\ [][SpiralNext]_vars

----------------------------------------------------------------------------
(* Pouring.pour_callback, pouring.py: the specification *)

PouringInit == SpiralIdle /\ PouringIdle /\ KettleIdle

PouringNext ==
    \/ AcceptPourGoal
    \/ PourLookupFailed
    \/ PourLookupOk
    \/ PourComputeAndPlan
    \/ PourExecuteAndReturn
    \/ ExecutionCompletes

SpecPouring == PouringInit /\ [][PouringNext]_vars

----------------------------------------------------------------------------
(* Kettle, kettle.py: the specification *)

KettleInit == SpiralIdle /\ PouringIdle /\ KettleIdle

\* a step of the node alone: the session history is not kept
Plain(A) == A /\ UNCHANGED sessionVars

KettleNext ==
    \E i \in Slots :
        \/ Plain(AcceptGoal(i, "pick"))
        \/ Plain(AcceptGoal(i, "place"))
        \/ Plain(AcceptGoal(i, "pour"))
        \/ Plain(PickStart(i))
        \/ Plain(PickLookupOk(i))
        \/ Plain(PickLookupFailed(i))
        \/ Plain(PickGoalSent(i))
        \/ Plain(PickGraspResult(i))
        \/ Plain(PlaceStart(i))
        \/ Plain(PlaceDone(i))
        \/ Plain(PourStartOk(i))
        \/ Plain(PourStartFailed(i))
        \/ Plain(PourStep(i))
        \/ Plain(PourDone(i))
        \/ Plain(Retire(i))

Spec == KettleInit /\ [][KettleNext]_vars

----------------------------------------------------------------------------
(* Kettle with the history of a session: how often the stored grasp pose has
   been read, and which goals a client has asked to cancel *)

\* a pick_kettle handler stores a grasp pose in this step
RecordWritten ==
    \E i \in Slots :
        /\ inv[i].kind = "pick" /\ inv[i].goal # "succeeded"
        /\ inv'[i].kind = "pick" /\ inv'[i].goal = "succeeded"

\* a place_kettle handler reads kettle_actual_place in this step
\* (kettle.py:164-169)
RecordRead ==
    \E i \in Slots :
        /\ inv[i].kind = "place" /\ inv[i].pc = "accepted"
        /\ inv'[i].pc = "awaiting"

RecordUse ==
    recordUses' =
        IF RecordWritten THEN 0
        ELSE IF RecordRead
             THEN (IF recordUses < MaxRecordUses THEN recordUses + 1
                   ELSE recordUses)
             ELSE recordUses

\* a delivered goal is forgotten
CancelSweep ==
    cancelRequested' = { i \in cancelRequested : inv'[i].pc # "free" }

\* a client asks to cancel a goal in flight: the action servers are built
\* without a cancel callback and no handler looks at the goal handle's
\* cancel state, so nothing in the node changes
CancelGoal(i) ==
    /\ inv[i].pc \in {"accepted", "awaiting"}
    /\ i \notin cancelRequested
    /\ cancelRequested' = cancelRequested \cup {i}
    /\ UNCHANGED <<kettle_actual_place, inv, pickSucceeded, recordUses, Unrelated>>

\* a step of the node, with the session history kept
Tracked(A) == A /\ RecordUse /\ CancelSweep

SessionNext ==
    \E i \in Slots :
        \/ Tracked(AcceptGoal(i, "pick"))
        \/ Tracked(AcceptGoal(i, "place"))
        \/ Tracked(AcceptGoal(i, "pour"))
        \/ Tracked(PickStart(i))
        \/ Tracked(PickLookupOk(i))
        \/ Tracked(PickLookupFailed(i))
        \/ Tracked(PickGoalSent(i))
        \/ Tracked(PickGraspResult(i))
        \/ Tracked(PlaceStart(i))
        \/ Tracked(PlaceDone(i))
        \/ Tracked(PourStartOk(i))
        \/ Tracked(PourStartFailed(i))
        \/ Tracked(PourStep(i))
        \/ Tracked(PourDone(i))
        \/ Tracked(Retire(i))
        \/ CancelGoal(i)

SpecSession == KettleInit /\ [][SessionNext]_vars

----------------------------------------------------------------------------
(* Properties of pour_kettle_cb, place_kettle_cb and pick_kettle_cb (Spec) *)

IsPrefix(s, t) == Len(s) <= Len(t) /\ \A k \in 1..Len(s) : s[k] = t[k]

IsSpiralRequest(c) == c.op = "pour_action.send_goal_async"
IsDelay(c) == c.op = "delay.call_async"

\* the start_outside flags of the spiral requests among calls, in order
SpiralFlags(calls) ==
    LET sel == SelectSeq(calls, IsSpiralRequest)
    IN  [k \in 1..Len(sel) |-> sel[k].start_outside]

\* for each delay among calls, in order, the number of spiral requests
\* issued before it: the cycle it follows
DelayCycles(calls) ==
    LET idx == { k \in 1..Len(calls) : IsDelay(calls[k]) }
        Before(k) == Cardinality({ j \in 1..k : IsSpiralRequest(calls[j]) })
        RECURSIVE Build(_, _)
        Build(k, acc) ==
            IF k > Len(calls) THEN acc
            ELSE Build(k + 1, IF k \in idx THEN Append(acc, Before(k)) ELSE acc)
    IN  Build(1, <<>>)

\* C1: a pour_kettle invocation whose pot_top transform resolved issues its
\* spiral requests with flags true, false, false, false in that order and its
\* 1 second delays after the return to the approach pose of cycles 1, 2 and
\* 3; when it returns it has issued exactly those 4 requests and 3 delays.
C1_PourIssuesFourSpiralsThreePauses ==
    \A i \in Slots :
        (inv[i].kind = "pour" /\ inv[i].lookup = "found") =>
            LET c == inv[i].calls
            IN  /\ IsPrefix(SpiralFlags(c), <<TRUE, FALSE, FALSE, FALSE>>)
                /\ IsPrefix(DelayCycles(c), <<1, 2, 3>>)
                /\ \A k \in 1..Len(c) :
                       IsDelay(c[k]) =>
                           /\ c[k].time = 1
                           /\ k > 2
                           /\ c[k-1].op = "plan_async"
                           /\ c[k-1].pose = "approach_pose"
                           /\ c[k-2].op = "get_result_async"
                /\ inv[i].pc = "returned" =>
                       /\ SpiralFlags(c) = <<TRUE, FALSE, FALSE, FALSE>>
                       /\ DelayCycles(c) = <<1, 2, 3>>
                       /\ ~IsDelay(c[Len(c)])

\* C1 witness: a pour whose transform resolved has run to its return
C1_Witness ==
    \E i \in Slots :
        /\ inv[i].kind = "pour" /\ inv[i].lookup = "found"
        /\ inv[i].pc = "returned"
        /\ Len(SpiralFlags(inv[i].calls)) = 4

\* C2 (as claimed): while no pick_kettle goal has succeeded in the session, a
\* place_kettle invocation asks for no motion and, once returned, has ended
\* in a PreconditionViolated failure.
C2_PlaceWithoutPickFails ==
    ~pickSucceeded =>
        \A i \in Slots :
            inv[i].kind = "place" =>
                /\ \A k \in 1..Len(inv[i].calls) :
                       inv[i].calls[k].op \notin MotionOps
                /\ inv[i].pc = "returned" =>
                       /\ inv[i].goal = "aborted"
                       /\ inv[i].ret[1] = "PreconditionViolated"

\* an invocation that has asked for a motion and has not reached its outcome
InMotion(i) ==
    /\ inv[i].pc \in {"awaiting"}
    /\ \E k \in 1..Len(inv[i].calls) : inv[i].calls[k].op \in MotionOps

\* C3 (as claimed): between the first motion request of an invocation and its
\* outcome no other invocation issues a motion request: at most one
\* invocation is between its first motion request and its outcome.
C3_MotionsNeverInterleave ==
    Cardinality({ i \in Slots : InMotion(i) }) <= 1

\* C4 (as claimed): a pour_kettle invocation whose pot_top lookup failed has
\* issued no motion, spiral or delay request and has returned a failure
\* result that names the frame pot_top.
C4_PourLookupFailureReported ==
    \A i \in Slots :
        (inv[i].kind = "pour" /\ inv[i].lookup = "failed") =>
            /\ inv[i].calls = <<>>
            /\ inv[i].pc = "returned"
            /\ inv[i].goal = "aborted"
            /\ \E k \in 1..Len(inv[i].ret) : inv[i].ret[k] = "pot_top"

\* C5 (as claimed): a handler that has returned has set its goal to
\* succeeded or to a failure state.
C5_ExplicitOutcome ==
    \A i \in Slots :
        inv[i].pc = "returned" => inv[i].goal \in {"succeeded", "aborted", "canceled"}

----------------------------------------------------------------------------
(* Properties of Pouring.pour_callback (SpecPouring) *)

\* C6 (as claimed): status=true is reported only once the execution of the
\* planned trajectory is complete.
C6_SuccessAfterExecutionComplete ==
    p_status = "true" => p_exec = "complete"

\* C7: when the lookup of the pour frame failed, the invocation has returned
\* status=false, has published exactly one feedback message, which names the
\* frame, and has made no call but the lookup: no end effector pose read, no
\* waypoints, no planning, no execution.
C7_LookupFailureGoesToFailed ==
    p_lookup = "failed" =>
        /\ p_pc = "returned"
        /\ p_status = "false"
        /\ Len(p_feedback) = 1
        /\ \E k \in 1..Len(p_feedback[1]) : p_feedback[1][k] = p_req.pour_frame
        /\ p_calls = <<"lookup_transform">>
        /\ p_waypoints = <<>>
        /\ p_plan = "none"
        /\ p_exec = "none"

\* C7 witness: an invocation whose frame lookup failed
C7_Witness == p_lookup = "failed" /\ p_pc = "returned"

\* the stage messages of an invocation that meets no failure
NormalStages == { <<"Calculating path">>, <<"Planning path">>, <<"Executing path">> }

\* C8 (as claimed): when create_cartesian_path failed, the invocation reports
\* status=false with a feedback message that is none of the normal stage
\* messages, has not asked for an execution and has planned once.
C8_PlanningFailureReported ==
    p_plan = "failed" =>
        /\ p_status = "false"
        /\ \E k \in 1..Len(p_feedback) : p_feedback[k] \notin NormalStages
        /\ \A k \in 1..Len(p_calls) : p_calls[k] # "execute_trajectory"
        /\ p_exec = "none"
        /\ Cardinality({ k \in 1..Len(p_calls) :
                           p_calls[k] = "create_cartesian_path" }) = 1

----------------------------------------------------------------------------
(* Properties of get_spiral_waypoints (SpecSpiral) *)

\* numPoints >= 1, maxRadius >= 0, loops > 0
ValidSpiralInput ==
    sp_in.numPoints >= 1 /\ sp_in.maxRadius >= 0 /\ sp_in.loopsN > 0

\* C9: on a valid input the call returns a list of exactly numPoints
\* waypoints, each with the input orientation and the z of the centre.
C9_SpiralLengthOrientationZ ==
    (ValidSpiralInput /\ sp_out.kind # "none") =>
        /\ sp_out.kind = "returned"
        /\ Len(sp_out.poseList) = sp_in.numPoints
        /\ \A k \in 1..Len(sp_out.poseList) :
               /\ sp_out.poseList[k].orientation = sp_in.startOre
               /\ sp_out.poseList[k].position.z = sp_in.startPoint.z

\* C9 witness: a valid call with several points, a radius and a non-zero
\* centre has returned
C9_Witness ==
    /\ ValidSpiralInput /\ sp_out.kind = "returned"
    /\ sp_in.numPoints >= 3 /\ sp_in.maxRadius > 0
    /\ sp_in.startPoint.z # 0

\* the list s in reverse order
Reverse(s) == [i \in 1..Len(s) |-> s[Len(s) + 1 - i]]

\* C10 (as claimed): with startOutside=true the returned list is the reverse
\* of the list returned for the same arguments with startOutside=false, so
\* it ends at the centre.
C10_StartOutsideReverses ==
    (ValidSpiralInput /\ sp_out.kind = "returned" /\ sp_in.flipStart) =>
        /\ sp_out.poseList =
               Reverse(get_spiral_waypoints(sp_in.startPoint, sp_in.startOre,
                                            sp_in.numPoints, sp_in.maxRadius,
                                            sp_in.loopsN, FALSE).poseList)
        /\ sp_out.poseList[Len(sp_out.poseList)].position = sp_in.startPoint

\* C11 (as claimed): a call with numPoints < 1, loops <= 0 or maxRadius < 0
\* ends in ParameterInvalid: it returns no list and raises no arithmetic
\* fault.
C11_InvalidParametersRejected ==
    (~ValidSpiralInput /\ sp_out.kind # "none") =>
        sp_out.kind = "ParameterInvalid"

\* a and b differ by at most 100 micrometres
Close(a, b) == a - b <= 100 /\ b - a <= 100

\* squared distance of waypoint k of the returned list from the centre
Dist2(k) ==
    LET dx == sp_out.poseList[k].position.x - sp_in.startPoint.x
        dy == sp_out.poseList[k].position.y - sp_in.startPoint.y
    IN  dx * dx + dy * dy

\* maxRadius*i/numPoints
ClaimedRadius(i) == (sp_in.maxRadius * i) \div sp_in.numPoints

\* i*loops*2*pi/numPoints, in quarter degrees
ClaimedAngle(i) == (i * sp_in.loopsN * TwoPi) \div (LoopDen * sp_in.numPoints)

\* the call of testable property 2: centre (0,0,0), 4 points, radius 0.02,
\* 1 loop, startOutside false
IsExampleCall ==
    /\ sp_in.startPoint = [x |-> 0, y |-> 0, z |-> 0]
    /\ sp_in.numPoints = 4 /\ sp_in.maxRadius = 20000 /\ sp_in.loopsN = 2
    /\ ~sp_in.flipStart

\* C12: with startOutside=false on a valid input, waypoint i lies at distance
\* maxRadius*i/numPoints from the centre at angle i*loops*2*pi/numPoints
\* (within 0.1 mm): the first waypoint is the centre, the radii do not
\* decrease and stay below maxRadius when it is positive; the example call
\* returns (0,0,0), (0,0.005,0), (-0.01,0,0), (0,-0.015,0).
C12_SpiralRadiusAndAngle ==
    (ValidSpiralInput /\ ~sp_in.flipStart /\ sp_out.kind = "returned") =>
        LET l == sp_out.poseList
            n == Len(l)
        IN  /\ n >= 1 /\ l[1].position = sp_in.startPoint
            /\ \A k \in 1..n :
                   LET R  == ClaimedRadius(k - 1)
                       th == ClaimedAngle(k - 1)
                       lo == IF R > 100 THEN (R - 100) * (R - 100) ELSE 0
                   IN  /\ Close(l[k].position.x - sp_in.startPoint.x,
                                MulTrig(R, Cos(th)))
                       /\ Close(l[k].position.y - sp_in.startPoint.y,
                                MulTrig(R, Sin(th)))
                       /\ lo <= Dist2(k) /\ Dist2(k) <= (R + 100) * (R + 100)
                       /\ sp_in.maxRadius > 0 =>
                              Dist2(k) < sp_in.maxRadius * sp_in.maxRadius
            /\ \A k \in 1..(n - 1) : Dist2(k) <= Dist2(k + 1)
            /\ IsExampleCall =>
                   /\ n = 4
                   /\ Close(l[1].position.x, 0) /\ Close(l[1].position.y, 0)
                   /\ Close(l[2].position.x, 0) /\ Close(l[2].position.y, 5000)
                   /\ Close(l[3].position.x, -10000) /\ Close(l[3].position.y, 0)
                   /\ Close(l[4].position.x, 0) /\ Close(l[4].position.y, -15000)
                   /\ \A k \in 1..4 : l[k].position.z = 0

\* C12 witness: the example call has returned
C12_Witness == IsExampleCall /\ sp_out.kind = "returned"

----------------------------------------------------------------------------
(* Stage order of Pouring.pour_callback (SpecPouring) *)

\* the statements of an invocation whose lookup succeeded and that returns
StagesInOrder ==
    <<"lookup_transform", "await get_end_effector_pose",
      "got end_effector_pose",
      "publish Calculating path", "get_spiral_waypoints",
      "publish Planning path", "await create_cartesian_path",
      "got cartesian_path",
      "publish Executing path", "execute_trajectory",
      "succeed", "return">>

----------------------------------------------------------------------------
(* Properties of a session of the Kettle node (SpecSession) *)

\* C13 (as claimed): a stored grasp pose is used by at most one place_kettle
\* invocation: once a pick has succeeded, no second place reads the pose
\* without a pick having stored a new one in between.
C13_RecordConsumedOnce ==
    pickSucceeded => recordUses <= 1

\* C14 (as claimed): once a client has asked to cancel a goal in flight, the
\* handler of that goal issues no further call: its next step ends the goal
\* as canceled.
C14_CancelStopsOperation ==
    [][ \A i \in Slots :
            (i \in cancelRequested /\ inv'[i] # inv[i]) =>
                \/ inv'[i].pc = "free"
                \/ /\ inv'[i].calls = inv[i].calls
                   /\ inv'[i].goal = "canceled" ]_vars

----------------------------------------------------------------------------
(* Order of the steps of pour_kettle_cb and pick_kettle_cb (Spec) *)

IsMotionStep(c) == c.op \in {"plan_async", "pour_action.send_goal_async"}

\* the pose motions and spiral requests among calls, in order
MotionSteps(calls) == SelectSeq(calls, IsMotionStep)

\* C15: the pose motions and spiral requests of a pour_kettle invocation come
\* in cycles of approach pose, pour pose, spiral request (100 points, radius
\* 0.02, 2 loops), approach pose; the result of the spiral request is awaited
\* before the move back; every call is issued by the step that receives the
\* answer of the call before it; the handler succeeds from the answer of the
\* return to the approach pose of cycle 4.
C15_PourCycleOrder ==
    /\ [](\A i \in Slots :
            (inv[i].kind = "pour" /\ inv[i].lookup = "found") =>
                LET c == inv[i].calls
                    m == MotionSteps(c)
                IN  /\ Len(m) <= 16
                    /\ \A j \in 1..Len(m) :
                         /\ (j - 1) % 4 \in {0, 3} =>
                                m[j].op = "plan_async" /\ m[j].pose = "approach_pose"
                         /\ (j - 1) % 4 = 1 =>
                                m[j].op = "plan_async" /\ m[j].pose = "pour_pose"
                         /\ (j - 1) % 4 = 2 =>
                                /\ m[j].op = "pour_action.send_goal_async"
                                /\ m[j].goal[1] = 100
                                /\ m[j].goal[2] = 20000
                                /\ m[j].goal[3] = 2 * LoopDen
                    /\ \A k \in 1..(Len(c) - 1) :
                         c[k].op = "pour_action.send_goal_async" =>
                             c[k+1].op = "get_result_async"
                    /\ inv[i].goal = "succeeded" =>
                         /\ Len(m) = 16
                         /\ c[Len(c)].op = "plan_async"
                         /\ c[Len(c)].pose = "approach_pose")
    /\ [][ \A i \in Slots :
            (inv[i].kind = "pour" /\ inv'[i].kind = "pour") =>
                /\ inv'[i].calls # inv[i].calls =>
                     /\ Len(inv'[i].calls) = Len(inv[i].calls) + 1
                     /\ IsPrefix(inv[i].calls, inv'[i].calls)
                     /\ inv[i].calls # <<>> => inv[i].pc = "awaiting"
                /\ (inv[i].goal # "succeeded" /\ inv'[i].goal = "succeeded") =>
                     inv[i].pc = "awaiting" ]_vars

\* C15 witness: a pour has succeeded after its 16 motions and spirals
C15_Witness ==
    \E i \in Slots :
        /\ inv[i].kind = "pour" /\ inv[i].goal = "succeeded"
        /\ Len(MotionSteps(inv[i].calls)) = 16

\* C16 (as claimed): once a pose motion or a spiral result of a pour_kettle
\* invocation has answered with a failure, the handler issues no further
\* call and does not succeed.
C16_PourStopsOnFailure ==
    [][ \A i \in Slots :
            (inv[i].kind = "pour" /\ inv'[i].kind = "pour" /\ inv'[i].subfail) =>
                /\ inv'[i].calls = inv[i].calls
                /\ inv'[i].goal # "succeeded" ]_vars

\* C18: in pick_kettle_cb the tag transform is looked up by the step that
\* receives the answer of the home joint motion; a grasp request is the
\* second call and is sent only with the transform found;
\* kettle_actual_place changes only in the step in which a pick receives its
\* grasp result; a pick that has succeeded has stored the pose before
\* calling succeed.
C18_PickOrder ==
    /\ [](\A i \in Slots :
            inv[i].kind = "pick" =>
                LET c == inv[i].calls
                IN  /\ inv[i].lookup # "none" =>
                           Len(c) >= 1 /\ c[1].op = "plan_joint_async"
                    /\ \A k \in 1..Len(c) :
                           c[k].op = "grasp_process.send_goal_async" =>
                               k = 2 /\ inv[i].lookup = "found"
                    /\ \A k \in 1..Len(inv[i].log) :
                           inv[i].log[k] = <<"store actual_grasp_pose">> =>
                               /\ Len(c) = 3 /\ c[3].op = "get_result_async"
                               /\ inv[i].pc = "returned"
                    /\ inv[i].goal = "succeeded" =>
                           inv[i].log = << <<"store actual_grasp_pose">>,
                                           <<"goal_handle.succeed">> >>)
    /\ [][ /\ \A i \in Slots :
                (inv[i].kind = "pick" /\ inv[i].lookup = "none"
                   /\ inv'[i].kind = "pick" /\ inv'[i].lookup # "none") =>
                    /\ inv[i].pc = "awaiting"
                    /\ Len(inv[i].calls) = 1
                    /\ inv[i].calls[1].op = "plan_joint_async"
           /\ kettle_actual_place' # kettle_actual_place =>
                \E i \in Slots :
                    /\ inv[i].kind = "pick" /\ inv[i].pc = "awaiting"
                    /\ inv[i].calls[Len(inv[i].calls)].op = "get_result_async"
                    /\ inv'[i].goal = "succeeded" ]_vars

\* C18 witness: a pick has succeeded and the stored pose is not the default
C18_Witness ==
    \E i \in Slots :
        /\ inv[i].kind = "pick" /\ inv[i].goal = "succeeded"
        /\ kettle_actual_place # 0

\* C19: a pick_kettle invocation whose tag lookup failed has returned with
\* the home joint motion as its only call, no grasp request and no pose
\* stored; the step in which the lookup fails leaves kettle_actual_place as
\* it is.
C19_PickLookupFailureStops ==
    /\ [](\A i \in Slots :
            (inv[i].kind = "pick" /\ inv[i].lookup = "failed") =>
                /\ inv[i].pc = "returned"
                /\ Len(inv[i].calls) = 1
                /\ inv[i].calls[1].op = "plan_joint_async"
                /\ \A k \in 1..Len(inv[i].log) :
                       inv[i].log[k] # <<"store actual_grasp_pose">>)
    /\ [][ \A i \in Slots :
            (inv[i].kind = "pick" /\ inv[i].lookup # "failed"
               /\ inv'[i].kind = "pick" /\ inv'[i].lookup = "failed") =>
                kettle_actual_place' = kettle_actual_place ]_vars

\* C19 witness: a pick whose lookup failed has returned while a pose from an
\* earlier pick is stored
C19_Witness ==
    \E i \in Slots :
        /\ inv[i].kind = "pick" /\ inv[i].lookup = "failed"
        /\ inv[i].pc = "returned"
        /\ kettle_actual_place # 0

\* C20 (as claimed): when the grasp result of a pick reports a failed grasp,
\* the pick does not succeed and kettle_actual_place is not overwritten.
C20_GraspFailureKeepsRecord ==
    [][ \A i \in Slots :
            (inv[i].kind = "pick" /\ inv[i].pc = "awaiting" /\ inv[i].step = 3
               /\ ~inv[i].subfail /\ inv'[i].kind = "pick" /\ inv'[i].subfail) =>
                /\ kettle_actual_place' = kettle_actual_place
                /\ inv'[i].goal # "succeeded" ]_vars

\* C21: place_kettle_cb composes the poses of its grasp plan in the step
\* that leaves the accepted state, before its only await, all from the value
\* kettle_actual_place has at that moment; the plan it has handed to
\* execute_grasp_plan does not change afterwards, whatever a pick stores
\* while the place is suspended.
C21_PlaceReadsRecordOnce ==
    /\ [](\A i \in Slots :
            (inv[i].kind = "place" /\ inv[i].calls # <<>>) =>
                LET plan == inv[i].calls[1].goal
                IN  /\ Len(inv[i].calls) = 1
                    /\ inv[i].calls[1].op = "execute_grasp_plan"
                    /\ Len(plan) = 3
                    /\ plan[1].tf = plan[2].tf
                    /\ plan[2].tf = plan[3].tf)
    /\ [][ \A i \in Slots :
            (inv[i].kind = "place" /\ inv'[i].kind = "place") =>
                /\ (inv[i].pc = "accepted" /\ inv'[i].pc # "accepted") =>
                     /\ inv[i].calls = <<>>
                     /\ inv'[i].calls # <<>>
                     /\ \A k \in 1..Len(inv'[i].calls[1].goal) :
                            inv'[i].calls[1].goal[k].tf = kettle_actual_place
                /\ inv[i].calls # <<>> => inv'[i].calls = inv[i].calls ]_vars

\* C21 witness: a place is suspended in execute_grasp_plan with a plan
\* composed from a value that a pick has since replaced
C21_Witness ==
    \E i \in Slots :
        /\ inv[i].kind = "place" /\ inv[i].pc = "awaiting"
        /\ inv[i].calls # <<>>
        /\ inv[i].calls[1].goal[1].tf # kettle_actual_place

====
